---- MODULE Spec2Model ----
(***************************************************************************)
(* Model of the review collection engine: review_scraper.py (G2, Capterra, *)
(* TrustRadius adapters, MockDataGenerator, ReviewScrapingTool) and        *)
(* github_reviews.py (GitHubScraper).                                      *)
(*                                                                         *)
(* Conventions.  A Python str on which the code works character by        *)
(* character (lower, upper, slicing, comparison) is a sequence of          *)
(* one-character strings.  An Optional value is a sequence: <<>> is None,  *)
(* <<x>> is a present value; a rating is <<>> (None) or <<num, den>>, the  *)
(* exact rational num/den.  A calendar date is <<year, month, day>>.  A    *)
(* free-form date text is a sequence of tokens (Tok).                      *)
(***************************************************************************)
EXTENDS Integers, Sequences, FiniteSets, TLC

VARIABLES
    entry,          \* the public function under execution
    pc,             \* position inside it
    company_name,   \* argument: subject name (characters)
    start_date,     \* argument: start of the window (run: tokens; GitHub: characters)
    end_date,       \* argument: end of the window
    source,         \* argument: source tag (characters)
    use_mock,       \* argument: forced mock mode
    count,          \* argument of generate_mock_reviews
    input,          \* argument of the single-item functions (container, reactions)
    today,          \* datetime.now(), fixed during one execution
    product_url,    \* get_direct_url's result: 0 is None, k is the k-th candidate
    page,           \* the pagination loops' page counter
    fetched,        \* number of result pages requested so far
    reviews,        \* the adapter's list of collected reviews
    result,         \* the value returned to the caller
    calls,          \* names of the functions entered so far
    old_seen,       \* history: an item dated before start_date was examined
    late_taken,     \* history: an item following such an item on its page was collected
    last_after,     \* history: the page fetched last held items, all dated after end_date
    kept,           \* history: <<>>, or <<reviews>> as they were when a page fetch failed
    last_url,       \* EnhancedSession.last_url: <<>> while the attribute is not set
    sent            \* history: the requests EnhancedSession.get has handed to requests

vars == << entry, pc, company_name, start_date, end_date, source, use_mock,
           count, input, today, product_url, page, fetched, reviews, result,
           calls, old_seen, late_taken, last_after, kept, last_url, sent >>

-----------------------------------------------------------------------------
(* Bounds of the model                                                     *)

MaxPageLen == 2
MaxCollect == 10
MaxUndated == 1
MaxIssues == 3
MaxGitHubPages == 11
MaxCount == 6
MaxReact == 3
MaxStars == 6
MaxDivs == 6
MaxRequests == 3

(* Program constants                                                       *)

max_pages == 10
DefaultCount == 5
TrustRadiusLimit == 5

-----------------------------------------------------------------------------
(* Characters and strings                                                  *)

LowerLetters ==
    << "a","b","c","d","e","f","g","h","i","j","k","l","m",
       "n","o","p","q","r","s","t","u","v","w","x","y","z" >>

UpperLetters ==
    << "A","B","C","D","E","F","G","H","I","J","K","L","M",
       "N","O","P","Q","R","S","T","U","V","W","X","Y","Z" >>

LowerChar(c) ==
    IF \E i \in 1..26 : UpperLetters[i] = c
    THEN LowerLetters[CHOOSE i \in 1..26 : UpperLetters[i] = c]
    ELSE c

UpperChar(c) ==
    IF \E i \in 1..26 : LowerLetters[i] = c
    THEN UpperLetters[CHOOSE i \in 1..26 : LowerLetters[i] = c]
    ELSE c

\* str.lower()
Lower(s) == [i \in 1..Len(s) |-> LowerChar(s[i])]

\* str.upper()
Upper(s) == [i \in 1..Len(s) |-> UpperChar(s[i])]

\* needle in haystack
Contains(haystack, needle) ==
    \E i \in 1..(Len(haystack) - Len(needle) + 1) :
        SubSeq(haystack, i, i + Len(needle) - 1) = needle

DigitChars == << "0","1","2","3","4","5","6","7","8","9" >>

\* Code point order of the characters of an ISO timestamp.
Ord(c) ==
    IF \E i \in 1..10 : DigitChars[i] = c
    THEN 47 + (CHOOSE i \in 1..10 : DigitChars[i] = c)
    ELSE IF c = "-" THEN 45
    ELSE IF c = ":" THEN 58
    ELSE IF c = "T" THEN 84
    ELSE 90

\* Python's a < b on str: lexicographic by code point, a proper prefix is smaller.
StrLess(a, b) ==
    \/ /\ Len(a) < Len(b)
       /\ SubSeq(b, 1, Len(a)) = a
    \/ \E i \in 1..Len(a) :
          /\ i <= Len(b)
          /\ SubSeq(a, 1, i - 1) = SubSeq(b, 1, i - 1)
          /\ Ord(a[i]) < Ord(b[i])

StrLessEq(a, b) == a = b \/ StrLess(a, b)

Digits2(n) == << DigitChars[(n \div 10) + 1], DigitChars[(n % 10) + 1] >>

Digits4(n) == Digits2(n \div 100) \o Digits2(n % 100)

\* "YYYY-MM-DD"
IsoDay(d) == Digits4(d[1]) \o <<"-">> \o Digits2(d[2]) \o <<"-">> \o Digits2(d[3])

\* "YYYY-MM-DDT00:00:00Z", the API's created_at
IsoStamp(d) == IsoDay(d) \o << "T","0","0",":","0","0",":","0","0","Z" >>

DigitVal(c) == (CHOOSE i \in 1..10 : DigitChars[i] = c) - 1

\* The calendar date a "YYYY-MM-DD" string denotes.
DateOfIso(s) ==
    << 1000 * DigitVal(s[1]) + 100 * DigitVal(s[2]) + 10 * DigitVal(s[3]) + DigitVal(s[4]),
       10 * DigitVal(s[6]) + DigitVal(s[7]),
       10 * DigitVal(s[9]) + DigitVal(s[10]) >>

-----------------------------------------------------------------------------
(* Calendar dates (datetime at midnight)                                   *)

DateLT(a, b) ==
    \/ a[1] < b[1]
    \/ a[1] = b[1] /\ a[2] < b[2]
    \/ a[1] = b[1] /\ a[2] = b[2] /\ a[3] < b[3]

DateLE(a, b) == a = b \/ DateLT(a, b)

IsLeap(y) == (y % 4 = 0 /\ y % 100 # 0) \/ y % 400 = 0

DaysIn(y, m) ==
    IF m = 2 THEN (IF IsLeap(y) THEN 29 ELSE 28)
    ELSE IF m \in {4, 6, 9, 11} THEN 30 ELSE 31

-----------------------------------------------------------------------------
(* Ratings: exact rationals <<num, den>>, den > 0                          *)

RatLE(a, b) == a[1] * b[2] <= b[1] * a[2]

RatEq(a, b) == a[1] * b[2] = b[1] * a[2]

-----------------------------------------------------------------------------
(* Date texts                                                              *)
(* A token is [k, v, w]: k = "num" is a maximal run of digits of value v   *)
(* and w digits; k = "mon" is an English month name, v its number, w = 1   *)
(* for the full name and 0 for the three-letter abbreviation; k = "word"   *)
(* is any other run of letters; k = " " is a run of white space; any other *)
(* k is that single character.                                             *)

Tok(k, v, w) == [k |-> k, v |-> v, w |-> w]

Num(v, w) == Tok("num", v, w)

Mon(m, full) == Tok("mon", m, IF full THEN 1 ELSE 0)

Word == Tok("word", 0, 0)

Sep(c) == Tok(c, 0, 0)

IsWordTok(x) == x.k \in {"num", "mon", "word"}

\* The characters re.sub(r'[^\w\s,/-]', '', ...) keeps.
IsKept(x) == IsWordTok(x) \/ x.k \in {" ", ",", "/", "-"}

RECURSIVE Pow10(_)
Pow10(n) == IF n = 0 THEN 1 ELSE 10 * Pow10(n - 1)

\* str.strip(): leading and trailing white space removed.
RECURSIVE Strip(_)
Strip(t) ==
    IF t = <<>> THEN t
    ELSE IF Head(t).k = " " THEN Strip(Tail(t))
    ELSE IF t[Len(t)].k = " " THEN Strip(SubSeq(t, 1, Len(t) - 1))
    ELSE t

\* Two runs of word characters that have become adjacent are one run.
Glue(a, b) ==
    IF a.k = "num" /\ b.k = "num"
    THEN Num(a.v * Pow10(b.w) + b.v, a.w + b.w)
    ELSE Word

RECURSIVE Merge(_)
Merge(t) ==
    IF Len(t) < 2 THEN t
    ELSE IF IsWordTok(t[1]) /\ IsWordTok(t[2])
         THEN Merge(<< Glue(t[1], t[2]) >> \o SubSeq(t, 3, Len(t)))
    ELSE IF t[1].k = " " /\ t[2].k = " "
         THEN Merge(Tail(t))
    ELSE << t[1] >> \o Merge(Tail(t))

\* parse_date: date_str = re.sub(r'[^\w\s,/-]', '', date_str.strip())
Clean(t) == Merge(SelectSeq(Strip(t), IsKept))

\* strptime directives (the regular expressions of _strptime)
IsB(x) == x.k = "mon" /\ (x.w = 1 \/ x.v = 5)

Isb(x) == x.k = "mon" /\ (x.w = 0 \/ x.v = 5)

Isd(x) == x.k = "num" /\ x.w \in {1, 2} /\ x.v \in 1..31

Ism(x) == x.k = "num" /\ x.w \in {1, 2} /\ x.v \in 1..12

IsY(x) == x.k = "num" /\ x.w = 4

\* datetime(y, m, d): <<>> stands for the ValueError of an impossible date.
MkDate(y, m, d) ==
    IF y >= 1 /\ m \in 1..12 /\ d >= 1 /\ d <= DaysIn(y, m) THEN << y, m, d >> ELSE <<>>

Kinds(t) == [i \in 1..Len(t) |-> IF IsWordTok(t[i]) THEN "w" ELSE t[i].k]

\* datetime.strptime(t, fmt) for the k-th entry of date_formats; <<>> is ValueError.
Strptime(t, k) ==
    CASE k = 1 ->   \* "%B %d, %Y"
           IF Kinds(t) = << "w", " ", "w", ",", " ", "w" >>
              /\ IsB(t[1]) /\ Isd(t[3]) /\ IsY(t[6])
           THEN MkDate(t[6].v, t[1].v, t[3].v) ELSE <<>>
      [] k = 2 ->   \* "%b %d, %Y"
           IF Kinds(t) = << "w", " ", "w", ",", " ", "w" >>
              /\ Isb(t[1]) /\ Isd(t[3]) /\ IsY(t[6])
           THEN MkDate(t[6].v, t[1].v, t[3].v) ELSE <<>>
      [] k = 3 ->   \* "%m/%d/%Y"
           IF Kinds(t) = << "w", "/", "w", "/", "w" >>
              /\ Ism(t[1]) /\ Isd(t[3]) /\ IsY(t[5])
           THEN MkDate(t[5].v, t[1].v, t[3].v) ELSE <<>>
      [] k = 4 ->   \* "%Y-%m-%d"
           IF Kinds(t) = << "w", "-", "w", "-", "w" >>
              /\ IsY(t[1]) /\ Ism(t[3]) /\ Isd(t[5])
           THEN MkDate(t[1].v, t[3].v, t[5].v) ELSE <<>>
      [] k = 5 ->   \* "%d/%m/%Y"
           IF Kinds(t) = << "w", "/", "w", "/", "w" >>
              /\ Isd(t[1]) /\ Ism(t[3]) /\ IsY(t[5])
           THEN MkDate(t[5].v, t[3].v, t[1].v) ELSE <<>>
      [] k = 6 ->   \* "%B %Y"
           IF Kinds(t) = << "w", " ", "w" >> /\ IsB(t[1]) /\ IsY(t[3])
           THEN MkDate(t[3].v, t[1].v, 1) ELSE <<>>
      [] k = 7 ->   \* "%b %Y"
           IF Kinds(t) = << "w", " ", "w" >> /\ Isb(t[1]) /\ IsY(t[3])
           THEN MkDate(t[3].v, t[1].v, 1) ELSE <<>>
      [] OTHER ->   \* "%Y-%m"
           IF Kinds(t) = << "w", "-", "w" >> /\ IsY(t[1]) /\ Ism(t[3])
           THEN MkDate(t[1].v, t[3].v, 1) ELSE <<>>

NumFormats == 8

\* re.search(r'\b(20\d{2})\b', date_str): the positions of the year tokens
YearTokens(t) == { i \in 1..Len(t) : t[i].k = "num" /\ t[i].w = 4 /\ t[i].v \in 2000..2099 }

\* A faulty variant: the last entry of date_formats that parses wins.
TryFormatsLast(t, k) ==
    LET M == { j \in k..NumFormats : Strptime(t, j) # <<>> }
    IN IF M = {} THEN <<>> ELSE Strptime(t, CHOOSE j \in M : \A i \in M : i <= j)

RECURSIVE TryFormats(_, _)
TryFormats(t, k) ==
    IF k > NumFormats THEN <<>>
    ELSE IF Strptime(t, k) # <<>> THEN Strptime(t, k)
    ELSE TryFormats(t, k + 1)

\* A faulty variant: only the year of the text is read.
parse_date_year_only(date_str) ==
    IF date_str = <<>> THEN <<>>
    ELSE LET t == Clean(date_str)
         IN IF YearTokens(t) # {}
            THEN MkDate(t[CHOOSE i \in YearTokens(t) : \A j \in YearTokens(t) : i <= j].v, 1, 1)
            ELSE <<>>

\* ReviewScraper.parse_date: <<>> is None
parse_date(date_str) ==
    IF date_str = <<>> THEN <<>>
    ELSE LET t == Clean(date_str)
             d == TryFormats(t, 1)
         IN IF d # <<>> THEN d
            ELSE IF YearTokens(t) # {}
                 THEN MkDate(t[CHOOSE i \in YearTokens(t) :
                                  \A j \in YearTokens(t) : i <= j].v, 1, 1)
            ELSE <<>>

MonthFull == TRUE

\* strftime("%B %d, %Y")
FormatBdY(d) == << Mon(d[2], MonthFull), Sep(" "), Num(d[3], 2), Sep(","), Sep(" "), Num(d[1], 4) >>

\* "YYYY-MM-DD" as a date text
TextYmd(d) == << Num(d[1], 4), Sep("-"), Num(d[2], 2), Sep("-"), Num(d[3], 2) >>

\* "MM/DD/YYYY"
TextMdy(d) == << Num(d[2], 2), Sep("/"), Num(d[3], 2), Sep("/"), Num(d[1], 4) >>

\* "Mon D, YYYY"
TextbdY(d) == << Mon(d[2], FALSE), Sep(" "), Num(d[3], IF d[3] < 10 THEN 1 ELSE 2),
                 Sep(","), Sep(" "), Num(d[1], 4) >>

\* "3 days ago"
TextRelative == << Num(3, 1), Sep(" "), Word, Sep(" "), Word >>

-----------------------------------------------------------------------------
(* review_scraper.py: the Review record and the mock generator             *)

None == <<>>

Some(x) == << x >>

Chars_G2 == << "G", "2" >>

Chars_Capterra == << "C","a","p","t","e","r","r","a" >>

Chars_TrustRadius == << "T","r","u","s","t","R","a","d","i","u","s" >>

\* dataclass Review
Review(title, description, date, rating, reviewer_name, reviewer_title, company_size, src, verified, pros, cons) ==
    [ title |-> title, description |-> description, date |-> date,
      rating |-> rating, reviewer_name |-> reviewer_name,
      reviewer_title |-> reviewer_title, company_size |-> company_size,
      source |-> src, verified |-> verified, pros |-> pros, cons |-> cons ]

sample_titles(c) ==
    << << "Excellent " >> \o c \o << " experience" >>,
       << "Great tool for our team - " >> \o c \o << " rocks!" >>,
       << "Mixed feelings about " >> \o c,
       c \o << " has transformed our workflow" >>,
       << "Good product but could be better - " >> \o c \o << " review" >> >>

sample_descriptions(c) ==
    << << "We've been using " >> \o c \o << " for over a year and it has significantly improved our productivity. The interface is intuitive and the features are comprehensive." >>,
       << "Great experience with " >> \o c \o << ". Customer support is responsive and the product delivers on its promises. Highly recommended for teams of our size." >>,
       << "While " >> \o c \o << " has good features, we found some limitations in customization. Overall decent but not perfect for our use case." >>,
       c \o << " integrates well with our existing tools. The learning curve was manageable and our team adapted quickly." >>,
       << "Mixed experience with " >> \o c \o << ". Some features are excellent while others need improvement. Would consider alternatives." >> >>

\* f"August {10+i}, 2024"
MockDate(i) ==
    << Mon(8, MonthFull), Sep(" "), Num(10 + i, IF 10 + i < 100 THEN 2 ELSE 3),
       Sep(","), Sep(" "), Num(2024, 4) >>

\* One iteration of the loop of generate_mock_reviews; r is random.uniform(3.0, 5.0).
MockReview(c, src, i, r) ==
    Review(sample_titles(c)[(i % Len(sample_titles(c))) + 1],
           sample_descriptions(c)[(i % Len(sample_descriptions(c))) + 1],
           MockDate(i),
           r,
           << "Demo User ", i + 1 >>,
           Some(IF i % 2 = 0 THEN "Manager" ELSE "Analyst"),
           Some(IF i % 3 = 0 THEN "51-200 employees" ELSE "11-50 employees"),
           src,
           i % 2 = 0,
           IF src = Chars_TrustRadius THEN Some("Good integration, Easy to use") ELSE None,
           IF src = Chars_TrustRadius THEN Some("Could be cheaper, Limited customization") ELSE None)

Min(a, b) == IF a < b THEN a ELSE b

\* range(count)
Range(n) == IF n > 0 THEN n ELSE 0

\* A faulty variant: one record per template, at most.
generate_mock_reviews_once(c, src, n, rs) ==
    [ j \in 1..Min(Range(n), Len(sample_titles(c))) |-> MockReview(c, src, j - 1, rs[j]) ]

\* MockDataGenerator.generate_mock_reviews; rs[i+1] is the i-th random rating.
generate_mock_reviews(c, src, n, rs) ==
    [ j \in 1..Range(n) |-> MockReview(c, src, j - 1, rs[j]) ]

\* The values random.uniform(3.0, 5.0) is sampled at.
RatingSamples == { << 3, 1 >>, << 5, 1 >> }

RandomRatings(n) == [ 1..Range(n) -> RatingSamples ]

\* The dictionary scrape_reviews builds from one Review.
ToDict(review) ==
    [ title |-> review.title, description |-> review.description,
      date |-> review.date, rating |-> review.rating,
      reviewer_name |-> review.reviewer_name,
      reviewer_title |-> review.reviewer_title,
      company_size |-> review.company_size, source |-> review.source,
      verified |-> review.verified, pros |-> review.pros, cons |-> review.cons ]

ToDicts(rs) == [ j \in 1..Len(rs) |-> ToDict(rs[j]) ]

-----------------------------------------------------------------------------
(* review_scraper.py: G2Scraper                                            *)

\* A review container of a G2 page, by what the selector chains find in it:
\*   raises    a selector call raises
\*   title     <<>> or the text of the first title element
\*   text      <<>> or the text of the first review text element
\*   date      <<>> or the text of the first date element (tokens)
\*   rated     a rating element is present
\*   filled    the number of filled-star elements inside it
\*   number    <<>> or the first number in its text
\*   reviewer  <<>> or the text of the first reviewer element
Container(raises, title, text, date, rated, filled, number, reviewer) ==
    [ raises |-> raises, title |-> title, text |-> text, date |-> date,
      rated |-> rated, filled |-> filled, number |-> number, reviewer |-> reviewer ]

\* The rating block of _parse_g2_review.
G2Rating(container) ==
    IF ~container.rated THEN None
    ELSE IF container.filled > 0 THEN << container.filled, 1 >>
    ELSE container.number

\* G2Scraper._parse_g2_review; now is datetime.now().  <<>> is None.
parse_g2_review(container, now) ==
    IF container.raises THEN None
    ELSE Some(Review(IF container.title = <<>> THEN << "No title" >> ELSE container.title,
                     IF container.text = <<>> THEN << "No description" >> ELSE container.text,
                     IF container.date = <<>> THEN FormatBdY(now) ELSE container.date,
                     G2Rating(container),
                     IF container.reviewer = <<>> THEN << "Anonymous" >> ELSE container.reviewer,
                     None, None, Chars_G2, FALSE, None, None))

\* The loop over review_containers in G2Scraper.scrape_reviews.  acc is
\* [reviews, page_reviews, stop]; stop records the return inside the loop.
\* The mutant G2ScanSkipsOld treats an item before start_dt like any other
\* item outside the window.
RECURSIVE G2ScanSkipsOld(_, _, _, _)
G2ScanSkipsOld(containers, acc, win, now) ==
    IF containers = <<>> THEN acc
    ELSE LET review == parse_g2_review(Head(containers), now)
             review_date == IF review = None THEN None ELSE parse_date(review[1].date)
         IN IF review # None /\ review_date # None
               /\ DateLE(win.start, review_date) /\ DateLE(review_date, win.end)
            THEN G2ScanSkipsOld(Tail(containers),
                        [acc EXCEPT !.reviews = Append(@, review[1]),
                                    !.page_reviews = @ + 1], win, now)
            ELSE G2ScanSkipsOld(Tail(containers), acc, win, now)

RECURSIVE G2Scan(_, _, _, _)
G2Scan(containers, acc, win, now) ==
    IF containers = <<>> THEN acc
    ELSE LET review == parse_g2_review(Head(containers), now)
             review_date == IF review = None THEN None ELSE parse_date(review[1].date)
         IN IF review # None /\ review_date # None
               /\ DateLE(win.start, review_date) /\ DateLE(review_date, win.end)
            THEN G2Scan(Tail(containers),
                        [acc EXCEPT !.reviews = Append(@, review[1]),
                                    !.page_reviews = @ + 1], win, now)
            ELSE IF review # None /\ review_date # None /\ DateLT(review_date, win.start)
            THEN [acc EXCEPT !.stop = TRUE]
            ELSE G2Scan(Tail(containers), acc, win, now)

\* scrape_reviews after the page loop body: what one fetched page does to the
\* loop state [reviews, page, go]; go is FALSE once the function is to return.
\* soup is <<>> (every page URL failed) or <<containers>>.
G2Step(soup, st, win, now) ==
    IF soup = None \/ soup[1] = <<>>
    THEN [st EXCEPT !.go = FALSE]
    ELSE LET acc == G2Scan(soup[1], [reviews |-> st.reviews, page_reviews |-> 0,
                                     stop |-> FALSE], win, now)
         IN IF acc.stop THEN [reviews |-> acc.reviews, page |-> st.page, go |-> FALSE]
            ELSE IF acc.page_reviews = 0
                 THEN [reviews |-> acc.reviews, page |-> st.page, go |-> FALSE]
            ELSE [reviews |-> acc.reviews, page |-> st.page + 1,
                  go |-> st.page + 1 <= max_pages]

-----------------------------------------------------------------------------
(* review_scraper.py: CapterraScraper and TrustRadiusScraper               *)

\* "August 2024"
CapterraDate == << Mon(8, MonthFull), Sep(" "), Num(2024, 4) >>

\* CapterraScraper._parse_capterra_review; element is <<>> or the heading's text.
parse_capterra_review(element) ==
    Some(Review(IF element = <<>> THEN << "No title" >> ELSE element,
                << "Sample description" >>, CapterraDate, << 4, 1 >>,
                << "Sample Reviewer" >>, None, None, Chars_Capterra, FALSE, None, None))

\* The loop over review_elements in CapterraScraper.scrape_reviews.
RECURSIVE CapterraScan(_, _, _)
CapterraScan(elements, acc, win) ==
    IF elements = <<>> THEN acc
    ELSE LET review == parse_capterra_review(Head(elements))
             review_date == IF review = None THEN None ELSE parse_date(review[1].date)
         IN IF review # None /\ review_date # None
               /\ DateLE(win.start, review_date) /\ DateLE(review_date, win.end)
            THEN CapterraScan(Tail(elements), Append(acc, review[1]), win)
            ELSE CapterraScan(Tail(elements), acc, win)

\* CapterraScraper.scrape_reviews; soup is <<>> or <<elements>>.
CapterraCollect(soup, win) ==
    IF soup = None THEN <<>> ELSE CapterraScan(soup[1], <<>>, win)

\* "July 2024"
TrustRadiusDate == << Mon(7, MonthFull), Sep(" "), Num(2024, 4) >>

TrustRadiusReview ==
    Review(<< "Sample TrustRadius Review" >>,
           << "This is a sample review from TrustRadius with detailed pros and cons." >>,
           TrustRadiusDate, << 9, 2 >>, << "TR Reviewer" >>, Some("IT Manager"),
           Some("201-500 employees"), Chars_TrustRadius, TRUE,
           Some("Great features and support"), Some("Steep learning curve"))

\* TrustRadiusScraper.scrape_reviews; soup is <<>> or <<number of review divs>>.
TrustRadiusCollect(soup, win) ==
    IF soup = None THEN <<>>
    ELSE [ j \in 1..Min(soup[1], TrustRadiusLimit) |-> TrustRadiusReview ]

-----------------------------------------------------------------------------
(* github_reviews.py: GitHubScraper                                        *)

ReactionNames == { "+1", "heart", "hooray", "confused" }

RECURSIVE SumValues(_)
\* sum(reactions.values())
SumValues(reactions) ==
    IF DOMAIN reactions = {} THEN 0
    ELSE LET n == CHOOSE n \in DOMAIN reactions : TRUE
         IN reactions[n] + SumValues([m \in DOMAIN reactions \ {n} |-> reactions[m]])

\* reactions.get(name, 0)
Get(reactions, name) == IF name \in DOMAIN reactions THEN reactions[name] ELSE 0

\* A faulty variant: the guard on total_reactions is missing; <<"ZeroDivisionError">>
\* stands for the exception of the division.
IssueRatingUnguarded(reactions) ==
    LET total_reactions == SumValues(reactions)
        positive == Get(reactions, "+1") + Get(reactions, "heart") + Get(reactions, "hooray")
    IN IF total_reactions = 0 THEN << "ZeroDivisionError" >>
       ELSE << positive * 5, total_reactions >>

\* get_issues: rating = (positive / total_reactions * 5) if total_reactions > 0 else None
IssueRating(reactions) ==
    LET total_reactions == SumValues(reactions)
        positive == Get(reactions, "+1") + Get(reactions, "heart") + Get(reactions, "hooray")
    IN IF total_reactions > 0 THEN << positive * 5, total_reactions >> ELSE None

\* dataclass GitHubReview
GitHubReview(title, body, author, date, type, url, state, labels, reactions, rating) ==
    [ title |-> title, body |-> body, author |-> author, date |-> date,
      type |-> type, url |-> url, state |-> state, labels |-> labels,
      reactions |-> reactions, rating |-> rating ]

\* An item of the API's listing: created_at (characters) and reactions,
\* <<>> when the item has no "reactions" key, else <<mapping>>.
Item(created_at, reactions) == [ created_at |-> created_at, reactions |-> reactions ]

\* issue.get("reactions", {})
ReactionsOf(item) == IF item.reactions = None THEN << >> ELSE item.reactions[1]

\* get_issues: the GitHubReview built from one issue inside the window.
IssueReview(issue) ==
    GitHubReview("title", "body", "login", SubSeq(issue.created_at, 1, 10), "issue",
                 "html_url", Some("open"), Some(<<>>), ReactionsOf(issue),
                 IssueRating(ReactionsOf(issue)))

\* get_pr_comments: the GitHubReview built from one comment inside the window.
CommentReview(comment) ==
    GitHubReview("PR Comment on 1", "body", "login", SubSeq(comment.created_at, 1, 10),
                 "pr_comment", "html_url", None, None, ReactionsOf(comment), None)

\* The loop over one page's items in get_issues (kind = "issue") and
\* get_pr_comments (kind = "pr_comment"); acc is [reviews, stop].
RECURSIVE ItemScan(_, _, _, _, _)
ItemScan(items, acc, start, end, kind) ==
    IF items = <<>> THEN acc
    ELSE LET created_at == SubSeq(Head(items).created_at, 1, 10)
         IN IF StrLess(created_at, start) THEN [acc EXCEPT !.stop = TRUE]
            ELSE IF StrLessEq(created_at, end)
            THEN ItemScan(Tail(items),
                     [acc EXCEPT !.reviews =
                         Append(@, IF kind = "issue" THEN IssueReview(Head(items))
                                   ELSE CommentReview(Head(items)))],
                     start, end, kind)
            ELSE ItemScan(Tail(items), acc, start, end, kind)

-----------------------------------------------------------------------------
(* review_scraper.py: ReviewScrapingTool                                   *)

Chars_g2 == << "g", "2" >>

Chars_capterra == << "c","a","p","t","e","r","r","a" >>

Chars_trustradius == << "t","r","u","s","t","r","a","d","i","u","s" >>

\* self.scrapers.keys()
Registry == { Chars_g2, Chars_capterra, Chars_trustradius }

\* A faulty variant: the tag is looked up as given.
SourceSupportedExact(src) == src \in Registry

\* source_lower = source.lower(); source_lower in self.scrapers
SourceSupported(src) == Lower(src) \in Registry

\* A faulty variant: the mock flag is not consulted.
ForcedMockIgnored(flag) == FALSE

\* if use_mock:
ForcedMock(flag) == flag

\* A faulty variant: an empty collection is returned as it is.
NeedsMockNever(rs) == FALSE

\* if not reviews:
NeedsMock(rs) == rs = <<>>

\* datetime.strptime(text, "%Y-%m-%d"); <<>> is ValueError
ParseArg(text) == Strptime(text, 4)

-----------------------------------------------------------------------------
(* review_scraper.py: get_direct_url.  A URL is the sequence of its fixed  *)
(* parts and of the characters interpolated between them.                  *)

\* str.replace(old, new) for a one-character old; new is a sequence
RECURSIVE Replace(_, _, _)
Replace(s, old, new) ==
    IF s = <<>> THEN <<>>
    ELSE (IF Head(s) = old THEN new ELSE << Head(s) >>) \o Replace(Tail(s), old, new)

SlugChars == { LowerLetters[i] : i \in 1..26 } \cup { DigitChars[i] : i \in 1..10 } \cup { "-" }

IsSlugChar(c) == c \in SlugChars

\* re.sub(r'[^a-z0-9-]', '', s)
StripNonSlug(s) == SelectSeq(s, IsSlugChar)

\* company_slug of G2Scraper.get_direct_url and CapterraScraper.get_direct_url
company_slug(name) ==
    StripNonSlug(Replace(Replace(Lower(name), " ", << "-" >>), "_", << "-" >>))

\* company_slug of TrustRadiusScraper.get_direct_url
TrustRadius_company_slug(name) ==
    StripNonSlug(Replace(Lower(name), " ", << "-" >>))

\* possible_urls of the adapter registered under source_lower
possible_urls(source_lower, name) ==
    IF source_lower = Chars_g2
    THEN << << "https://www.g2.com", "/products/" >> \o company_slug(name) \o << "/reviews" >>,
            << "https://www.g2.com", "/products/" >> \o company_slug(name)
                \o << "-reviews/reviews" >>,
            << "https://www.g2.com", "/products/" >>
                \o Replace(Lower(name), " ", <<>>) \o << "/reviews" >> >>
    ELSE IF source_lower = Chars_capterra
    THEN << << "https://www.capterra.com", "/p/" >> \o company_slug(name) \o << "/reviews" >>,
            << "https://www.capterra.com", "/p/" >> \o company_slug(name) \o << "/#reviews" >>,
            << "https://www.capterra.com", "/p/" >>
                \o Replace(Lower(name), " ", << "-" >>) \o << "/reviews" >> >>
    ELSE << << "https://www.trustradius.com", "/products/" >>
                \o TrustRadius_company_slug(name) \o << "/reviews" >>,
            << "https://www.trustradius.com", "/products/" >>
                \o TrustRadius_company_slug(name) >>

\* The slug get_direct_url computes in the adapter registered under source_lower
SlugOf(source_lower, name) ==
    IF source_lower = Chars_trustradius THEN TrustRadius_company_slug(name)
    ELSE company_slug(name)

\* The length of possible_urls in the adapter's get_direct_url.
NumCandidates(source_lower) == Len(possible_urls(source_lower, <<>>))

-----------------------------------------------------------------------------
(* Inputs                                                                  *)

WindowStart == << 2024, 1, 1 >>

WindowEnd == << 2024, 12, 31 >>

EarlyEnd == << 2024, 6, 30 >>

Acme == << "A","c","m","e" >>

Companies == { Acme, << "M","y"," ","A","p","p" >> }

StartTexts == { TextYmd(WindowStart), TextMdy(WindowStart) }

EndTexts == { TextYmd(WindowEnd), TextYmd(EarlyEnd),
              << Num(2024, 4), Sep("-"), Num(13, 2), Sep("-"), Num(31, 2) >> }

SourceTags == { Chars_g2, Chars_Capterra, Chars_trustradius, << "y","e","l","p" >> }

TodaySamples == { WindowEnd, << 2026, 11, 2 >> }

SeqsUpTo(S, n) == UNION { [1..k -> S] : k \in 0..n }

\* Containers a G2 page is made of: dated before the window, on its first
\* day, without a date element, after the window, with a relative date.
G2Samples ==
    { Container(FALSE, <<>>, <<>>, FormatBdY(<< 2023, 12, 15 >>), TRUE, 4, None, <<>>),
      Container(FALSE, << "Solid" >>, <<>>, TextbdY(WindowStart), TRUE, 0, << 9, 2 >>, <<>>),
      Container(FALSE, <<>>, <<>>, <<>>, FALSE, 0, None, <<>>),
      Container(FALSE, <<>>, <<>>, TextYmd(<< 2025, 1, 5 >>), FALSE, 0, None, <<>>),
      Container(FALSE, <<>>, <<>>, TextRelative, FALSE, 0, None, <<>>) }

G2Pages == SeqsUpTo(G2Samples, MaxPageLen)

\* The first numbers a rating element's text may hold: 0, 4.5, 10.
NumberSamples == { None, << 0, 1 >>, << 9, 2 >>, << 10, 1 >> }

\* Containers handed to _parse_g2_review alone.
ContainerInputs ==
    { Container(raises, <<>>, <<>>, date, rated, filled, number, <<>>) :
        raises \in BOOLEAN, date \in { <<>>, TextMdy(WindowEnd) }, rated \in BOOLEAN,
        filled \in 0..MaxStars, number \in NumberSamples }

\* Headings of Capterra review elements.
CapterraPages == SeqsUpTo({ <<>>, << "Works" >> }, MaxPageLen)

ExampleReactions == [ n \in ReactionNames |->
    IF n = "+1" THEN 3 ELSE IF n = "heart" THEN 1 ELSE IF n = "hooray" THEN 0 ELSE 2 ]

AllReactions == UNION { [S -> 0..MaxReact] : S \in SUBSET ReactionNames }

\* Items of the API's listings: created before the window, on its first day,
\* on its last day, after it.
ItemSamples ==
    { Item(IsoStamp(<< 2023, 12, 15 >>), None),
      Item(IsoStamp(WindowStart), Some(ExampleReactions)),
      Item(IsoStamp(WindowEnd), None),
      Item(IsoStamp(<< 2025, 1, 5 >>), Some([ n \in ReactionNames |-> 0 ])) }

ItemPages == SeqsUpTo(ItemSamples, MaxPageLen)

\* The calendar dates of two years, one of them a leap year.
CalendarDates ==
    { << y, m, d >> : y \in { 2023, 2024 }, m \in 1..12, d \in 1..31 }

ValidDates == { d \in CalendarDates : MkDate(d[1], d[2], d[3]) # <<>> }

\* Texts handed to parse_date besides the normalized dates: nothing, white
\* space, "01/02/2024", "13/02/2024", "02/30/2024", "May 05, 2024",
\* "December 31, 2024", "Jan 1, 2024", "August 2024", "Jul 2024", "2024-05",
\* "2024-13-31", "3 days ago", "Posted in 2024", "Posted in 1999",
\* "(2024-05-06)", "20.24", "2024.5", "2023 - 2024".
OtherDateTexts ==
    { <<>>,
      << Sep(" ") >>,
      TextMdy(<< 2024, 1, 2 >>),
      TextMdy(<< 2024, 13, 2 >>),
      TextMdy(<< 2024, 2, 30 >>),
      FormatBdY(<< 2024, 5, 5 >>),
      FormatBdY(WindowEnd),
      TextbdY(WindowStart),
      CapterraDate,
      << Mon(7, FALSE), Sep(" "), Num(2024, 4) >>,
      << Num(2024, 4), Sep("-"), Num(5, 2) >>,
      << Num(2024, 4), Sep("-"), Num(13, 2), Sep("-"), Num(31, 2) >>,
      TextRelative,
      << Word, Sep(" "), Word, Sep(" "), Num(2024, 4) >>,
      << Word, Sep(" "), Word, Sep(" "), Num(1999, 4) >>,
      << Sep("(") >> \o TextYmd(<< 2024, 5, 6 >>) \o << Sep(")") >>,
      << Num(20, 2), Sep("."), Num(24, 2) >>,
      << Num(2024, 4), Sep("."), Num(5, 1) >>,
      << Num(2023, 4), Sep(" "), Sep("-"), Sep(" "), Num(2024, 4) >> }

DateTexts == { TextYmd(d) : d \in ValidDates } \cup OtherDateTexts

\* Subject names: "Acme", "My App", "my_app", "A&B 2".
SubjectNames == { Acme, << "M","y"," ","A","p","p" >>, << "m","y","_","a","p","p" >>,
                  << "A","&","B"," ","2" >> }

MockSources == { Chars_G2, Chars_TrustRadius, Upper(Chars_trustradius) }

-----------------------------------------------------------------------------
(* History of a page scan, in calendar terms.  ds is the sequence of the   *)
(* parsed dates of a page's items (<<>> for an item without one).          *)

OldAt(ds, start) == { i \in 1..Len(ds) : ds[i] # None /\ DateLT(ds[i], start) }

HasOld(ds, start) == OldAt(ds, start) # {}

FirstOld(ds, start) == CHOOSE i \in OldAt(ds, start) : \A j \in OldAt(ds, start) : i <= j

InWindow(d, start, end) == d # None /\ DateLE(start, d) /\ DateLE(d, end)

\* The number of in-window items ahead of the first item dated before start.
AheadOfOld(ds, start, end) ==
    Cardinality({ i \in 1..(FirstOld(ds, start) - 1) : InWindow(ds[i], start, end) })

AllAfter(ds, end) == ds # <<>> /\ \A i \in 1..Len(ds) : ds[i] # None /\ DateLT(end, ds[i])

\* review_date of a container, as scrape_reviews computes it
G2Date(container, now) ==
    LET review == parse_g2_review(container, now)
    IN IF review = None THEN None ELSE parse_date(review[1].date)

G2Dates(containers, now) == [ i \in 1..Len(containers) |-> G2Date(containers[i], now) ]

ItemDates(items) == [ i \in 1..Len(items) |-> DateOfIso(SubSeq(items[i].created_at, 1, 10)) ]

-----------------------------------------------------------------------------
(* The state machine                                                       *)

Idle ==
    /\ product_url = 0
    /\ page = 1
    /\ fetched = 0
    /\ reviews = <<>>
    /\ result = <<>>
    /\ calls = {}
    /\ old_seen = FALSE
    /\ late_taken = FALSE
    /\ last_after = FALSE
    /\ kept = <<>>
    /\ last_url = <<>>
    /\ sent = <<>>

\* ReviewScrapingTool.scrape_reviews(company_name, start_date, end_date, source, use_mock)
InitRun ==
    /\ entry = "scrape_reviews"
    /\ pc = "start"
    /\ company_name = Acme
    /\ start_date \in StartTexts
    /\ end_date \in EndTexts
    /\ source \in SourceTags
    /\ use_mock \in BOOLEAN
    /\ count = DefaultCount
    /\ input = <<>>
    /\ today \in TodaySamples
    /\ Idle

\* GitHubScraper.get_issues / get_pr_comments(owner, repo, start_date, end_date)
InitGitHub ==
    /\ entry \in { "get_issues", "get_pr_comments" }
    /\ pc = "collect"
    /\ company_name = << "o", "/", "r" >>
    /\ start_date = IsoDay(WindowStart)
    /\ end_date = IsoDay(WindowEnd)
    /\ source = <<>>
    /\ use_mock = FALSE
    /\ count = 0
    /\ input = <<>>
    /\ today = WindowEnd
    /\ Idle

\* MockDataGenerator.generate_mock_reviews(company_name, source, count)
InitMock ==
    /\ entry = "generate_mock_reviews"
    /\ pc = "start"
    /\ company_name \in Companies
    /\ start_date = <<>>
    /\ end_date = <<>>
    /\ source \in MockSources
    /\ use_mock = FALSE
    /\ count \in 0..MaxCount
    /\ input = <<>>
    /\ today = WindowEnd
    /\ Idle

\* G2Scraper._parse_g2_review(container)
InitParse ==
    /\ entry = "_parse_g2_review"
    /\ pc = "start"
    /\ company_name = <<>>
    /\ start_date = <<>>
    /\ end_date = <<>>
    /\ source = <<>>
    /\ use_mock = FALSE
    /\ count = 0
    /\ input \in ContainerInputs
    /\ today \in TodaySamples
    /\ Idle

\* The body of get_issues' loop on one issue with the given reactions.
InitRate ==
    /\ entry = "issue"
    /\ pc = "start"
    /\ company_name = <<>>
    /\ start_date = IsoDay(WindowStart)
    /\ end_date = IsoDay(WindowEnd)
    /\ source = <<>>
    /\ use_mock = FALSE
    /\ count = 0
    /\ input \in AllReactions
    /\ today = WindowEnd
    /\ Idle

\* EnhancedSession.get(url) on a session whose last_url is last (<<>> while
\* the attribute is not set).  outcome tells how self.session.get ends:
\* "response" (a response with a success status), "error_status" (a response
\* with an error status, returned as any other), "exception" (a connection
\* error, a timeout or exhausted retries: requests raises).  request is what
\* is handed to requests; last_url is the attribute after the call.
EnhancedSession_get(last, url, outcome) ==
    [ request |-> [ url |-> url, Referer |-> last, outcome |-> outcome ],
      last_url |-> IF outcome = "exception" THEN last ELSE Some(url) ]

Urls == { "https://www.g2.com/products/acme/reviews?page=1",
          "https://www.g2.com/products/acme/reviews?page=2" }

Outcomes == { "response", "error_status", "exception" }

\* A sequence of EnhancedSession.get calls on one new session
InitSession ==
    /\ entry = "EnhancedSession.get"
    /\ pc = "start"
    /\ company_name = <<>>
    /\ start_date = <<>>
    /\ end_date = <<>>
    /\ source = <<>>
    /\ use_mock = FALSE
    /\ count = 0
    /\ input = <<>>
    /\ today = WindowEnd
    /\ Idle

\* scraper.get_direct_url(company_name) of the adapter registered under source
InitLocate ==
    /\ entry = "get_direct_url"
    /\ pc = "start"
    /\ company_name \in SubjectNames
    /\ start_date = <<>>
    /\ end_date = <<>>
    /\ source \in Registry
    /\ use_mock = FALSE
    /\ count = 0
    /\ input = <<>>
    /\ today = WindowEnd
    /\ Idle

\* ReviewScraper.parse_date(date_str)
InitParseDate ==
    /\ entry = "parse_date"
    /\ pc = "start"
    /\ company_name = <<>>
    /\ start_date = <<>>
    /\ end_date = <<>>
    /\ source = <<>>
    /\ use_mock = FALSE
    /\ count = 0
    /\ input \in DateTexts
    /\ today = WindowEnd
    /\ Idle

Init ==
    \/ InitRun \/ InitGitHub \/ InitMock \/ InitParse \/ InitRate
    \/ InitParseDate \/ InitSession \/ InitLocate

Args == << entry, company_name, start_date, end_date, source, use_mock, count, input, today >>

Scan == << page, fetched, reviews, old_seen, late_taken, last_after, kept >>

Session == << last_url, sent >>

Window == [ start |-> ParseArg(start_date), end |-> ParseArg(end_date) ]

\* A collected review whose date is the default of _parse_g2_review
Undated(review) == review.date = FormatBdY(today)

\* scrape_reviews up to the choice between the mock mode and the adapter
Validate ==
    /\ entry = "scrape_reviews"
    /\ pc = "start"
    /\ IF ParseArg(start_date) = <<>> \/ ParseArg(end_date) = <<>>
       THEN /\ result' = <<>>
            /\ pc' = "done"
            /\ calls' = calls \cup { "ReviewScrapingTool.scrape_reviews" }
       ELSE IF ~SourceSupported(source)
       THEN /\ result' = <<>>
            /\ pc' = "done"
            /\ calls' = calls \cup { "ReviewScrapingTool.scrape_reviews" }
       ELSE IF ForcedMock(use_mock)
       THEN /\ \E rs \in RandomRatings(count) :
                 result' = ToDicts(generate_mock_reviews(company_name, Upper(source), count, rs))
            /\ pc' = "done"
            /\ calls' = calls \cup { "ReviewScrapingTool.scrape_reviews", "generate_mock_reviews" }
       ELSE /\ result' = result
            /\ pc' = "locate"
            /\ calls' = calls \cup { "ReviewScrapingTool.scrape_reviews" }
    /\ UNCHANGED << Args, Session, Scan, product_url >>

\* scraper.get_direct_url(company_name) and the branch on its result; k = 0
\* when no candidate URL answers with a valid page, else the first that does.
Locate ==
    /\ entry = "scrape_reviews"
    /\ pc = "locate"
    /\ \E k \in 0..NumCandidates(Lower(source)) :
         /\ product_url' = k
         /\ IF k = 0
            THEN /\ \E rs \in RandomRatings(count) :
                      result' = ToDicts(generate_mock_reviews(company_name, Upper(source), count, rs))
                 /\ pc' = "done"
                 /\ calls' = calls \cup { "get_direct_url", "make_request",
                                          "EnhancedSession.get", "generate_mock_reviews" }
            ELSE /\ result' = result
                 /\ pc' = "collect"
                 /\ calls' = calls \cup { "get_direct_url", "make_request",
                                          "EnhancedSession.get", "scraper.scrape_reviews" }
    /\ UNCHANGED << Args, Session, Scan >>

\* One iteration of the page loop of G2Scraper.scrape_reviews.  soup is what
\* the loop over page_urls leaves: <<>> when the last request failed, else
\* the containers of the page it stopped at (none on a page without reviews).
G2Page ==
    /\ entry = "scrape_reviews"
    /\ pc = "collect"
    /\ Lower(source) = Chars_g2
    /\ \E soup \in { None } \cup { Some(p) : p \in G2Pages } :
         LET st == G2Step(soup, [reviews |-> reviews, page |-> page, go |-> TRUE],
                          Window, today)
             ds == IF soup = None THEN <<>> ELSE G2Dates(soup[1], today)
         IN /\ Len(st.reviews) <= MaxCollect
            /\ Len(SelectSeq(st.reviews, Undated)) <= MaxUndated
            /\ reviews' = st.reviews
            /\ page' = st.page
            /\ pc' = IF st.go THEN "collect" ELSE "collected"
            /\ old_seen' = (old_seen \/ HasOld(ds, Window.start))
            /\ late_taken' = (late_taken \/
                   (HasOld(ds, Window.start) /\
                    Len(st.reviews) - Len(reviews) > AheadOfOld(ds, Window.start, Window.end)))
            /\ last_after' = AllAfter(ds, Window.end)
            /\ kept' = IF soup = None THEN Some(reviews) ELSE kept
    /\ fetched' = fetched + 1
    /\ calls' = calls \cup { "make_request", "EnhancedSession.get" }
    /\ UNCHANGED << Args, Session, product_url, result >>

\* CapterraScraper.scrape_reviews: one request, one page
CapterraPage ==
    /\ entry = "scrape_reviews"
    /\ pc = "collect"
    /\ Lower(source) = Chars_capterra
    /\ \E soup \in { None } \cup { Some(p) : p \in CapterraPages } :
         LET ds == IF soup = None THEN <<>>
                   ELSE [ i \in 1..Len(soup[1]) |-> parse_date(CapterraDate) ]
         IN /\ reviews' = CapterraCollect(soup, Window)
            /\ old_seen' = HasOld(ds, Window.start)
            /\ last_after' = AllAfter(ds, Window.end)
            /\ kept' = IF soup = None THEN Some(reviews) ELSE kept
    /\ pc' = "collected"
    /\ fetched' = fetched + 1
    /\ calls' = calls \cup { "make_request", "EnhancedSession.get" }
    /\ UNCHANGED << Args, Session, product_url, result, page, late_taken >>

\* TrustRadiusScraper.scrape_reviews: one request, one page
TrustRadiusPage ==
    /\ entry = "scrape_reviews"
    /\ pc = "collect"
    /\ Lower(source) = Chars_trustradius
    /\ \E soup \in { None } \cup { Some(n) : n \in 0..MaxDivs } :
         LET ds == IF soup = None THEN <<>>
                   ELSE [ i \in 1..soup[1] |-> parse_date(TrustRadiusDate) ]
         IN /\ reviews' = TrustRadiusCollect(soup, Window)
            /\ old_seen' = HasOld(ds, Window.start)
            /\ last_after' = AllAfter(ds, Window.end)
            /\ kept' = IF soup = None THEN Some(reviews) ELSE kept
    /\ pc' = "collected"
    /\ fetched' = fetched + 1
    /\ calls' = calls \cup { "make_request", "EnhancedSession.get" }
    /\ UNCHANGED << Args, Session, product_url, result, page, late_taken >>

\* scrape_reviews after scraper.scrape_reviews has returned
Finish ==
    /\ entry = "scrape_reviews"
    /\ pc = "collected"
    /\ IF NeedsMock(reviews)
       THEN /\ \E rs \in RandomRatings(count) :
                 result' = ToDicts(generate_mock_reviews(company_name, Upper(source), count, rs))
            /\ calls' = calls \cup { "generate_mock_reviews" }
       ELSE /\ result' = ToDicts(reviews)
            /\ calls' = calls
    /\ pc' = "done"
    /\ UNCHANGED << Args, Session, Scan, product_url >>

\* One iteration of the loop of get_issues (kind "issue") or get_pr_comments
\* (kind "pr_comment").  response is <<>> when raise_for_status raises.
GitHubPage(name, kind) ==
    /\ entry = name
    /\ pc = "collect"
    /\ fetched < MaxGitHubPages
    /\ fetched' = fetched + 1
    /\ \E response \in { None } \cup { Some(p) : p \in ItemPages } :
         IF response = None
         THEN /\ pc' = "raised"
              /\ last_after' = FALSE
              /\ kept' = Some(reviews)
              /\ UNCHANGED << reviews, page, result, old_seen, late_taken >>
         ELSE IF response[1] = <<>>
         THEN /\ pc' = "done"
              /\ result' = reviews
              /\ last_after' = FALSE
              /\ UNCHANGED << reviews, page, old_seen, late_taken, kept >>
         ELSE LET acc == ItemScan(response[1], [reviews |-> reviews, stop |-> FALSE],
                                  start_date, end_date, kind)
                  ds == ItemDates(response[1])
                  start == DateOfIso(start_date)
                  end == DateOfIso(end_date)
              IN /\ Len(acc.reviews) <= MaxIssues
                 /\ reviews' = acc.reviews
                 /\ old_seen' = (old_seen \/ HasOld(ds, start))
                 /\ late_taken' = (late_taken \/
                        (HasOld(ds, start) /\
                         Len(acc.reviews) - Len(reviews) > AheadOfOld(ds, start, end)))
                 /\ last_after' = AllAfter(ds, end)
                 /\ kept' = kept
                 /\ IF acc.stop
                    THEN pc' = "done" /\ result' = acc.reviews /\ page' = page
                    ELSE pc' = "collect" /\ result' = result /\ page' = page + 1
    /\ calls' = calls \cup { "session.get" }
    /\ UNCHANGED << Args, Session, product_url >>

GetIssuesPage == GitHubPage("get_issues", "issue")

GetPrCommentsPage == GitHubPage("get_pr_comments", "pr_comment")

\* generate_mock_reviews called on its own
Synthesize ==
    /\ entry = "generate_mock_reviews"
    /\ pc = "start"
    /\ \E rs \in RandomRatings(count) :
         result' = generate_mock_reviews(company_name, source, count, rs)
    /\ pc' = "done"
    /\ calls' = calls \cup { "generate_mock_reviews" }
    /\ UNCHANGED << Args, Session, Scan, product_url >>

\* _parse_g2_review called on its own
ParseContainer ==
    /\ entry = "_parse_g2_review"
    /\ pc = "start"
    /\ result' = parse_g2_review(input, today)
    /\ pc' = "done"
    /\ calls' = calls \cup { "_parse_g2_review" }
    /\ UNCHANGED << Args, Session, Scan, product_url >>

\* The review get_issues builds from an issue of the window's first day
RateIssue ==
    /\ entry = "issue"
    /\ pc = "start"
    /\ result' = << IssueReview(Item(IsoStamp(WindowStart), Some(input))) >>
    /\ pc' = "done"
    /\ calls' = calls
    /\ UNCHANGED << Args, Session, Scan, product_url >>

\* parse_date called on its own; result is <<>> or <<year, month, day>>
ParseDate ==
    /\ entry = "parse_date"
    /\ pc = "start"
    /\ result' = parse_date(input)
    /\ pc' = "done"
    /\ calls' = calls \cup { "parse_date" }
    /\ UNCHANGED << Args, Session, Scan, product_url >>

\* get_direct_url called on its own: the slug, the candidate URLs, and which
\* of them, if any, answered with a valid page (product_url).
DirectUrl ==
    /\ entry = "get_direct_url"
    /\ pc = "start"
    /\ result' = [ company_slug |-> SlugOf(source, company_name),
                   possible_urls |-> possible_urls(source, company_name) ]
    /\ product_url' \in 0..NumCandidates(source)
    /\ pc' = "done"
    /\ calls' = calls \cup { "get_direct_url", "make_request", "EnhancedSession.get" }
    /\ UNCHANGED << Args, Session, Scan >>

\* One call of EnhancedSession.get
SessionGet ==
    /\ entry = "EnhancedSession.get"
    /\ Len(sent) < MaxRequests
    /\ \E url \in Urls, outcome \in Outcomes :
         LET after == EnhancedSession_get(last_url, url, outcome)
         IN /\ sent' = Append(sent, after.request)
            /\ last_url' = after.last_url
    /\ calls' = calls \cup { "EnhancedSession.get" }
    /\ UNCHANGED << Args, Scan, pc, product_url, result >>

Next ==
    \/ Validate
    \/ Locate
    \/ G2Page
    \/ CapterraPage
    \/ TrustRadiusPage
    \/ Finish
    \/ GetIssuesPage
    \/ GetPrCommentsPage
    \/ Synthesize
    \/ ParseContainer
    \/ RateIssue
    \/ ParseDate
    \/ SessionGet
    \/ DirectUrl

Spec == Init /\ [][Next]_vars

-----------------------------------------------------------------------------
(* Properties                                                              *)

IsRun == entry = "scrape_reviews"

IsGitHub == entry \in { "get_issues", "get_pr_comments" }

IsG2Run == IsRun /\ Lower(source) = Chars_g2

ValidArgs == ParseArg(start_date) # <<>> /\ ParseArg(end_date) # <<>>

NetworkCalls == { "get_direct_url", "scraper.scrape_reviews", "make_request", "EnhancedSession.get" }

\* The parsed dates of the reviews collected so far.
CollectedDates ==
    IF IsGitHub THEN [ i \in 1..Len(reviews) |-> DateOfIso(reviews[i].date) ]
    ELSE [ i \in 1..Len(reviews) |-> parse_date(reviews[i].date) ]

WindowStartDate == IF IsGitHub THEN DateOfIso(start_date) ELSE ParseArg(start_date)

WindowEndDate == IF IsGitHub THEN DateOfIso(end_date) ELSE ParseArg(end_date)

\* C1: early-termination law.  In G2's scrape_reviews, get_issues and
\* get_pr_comments no collected item has a parsed date strictly before the
\* start date, no item that follows an item dated before the start date on
\* its page is collected, and once such an item has been examined the list
\* of collected items never changes again and no further page is requested.
C1_EarlyTermination ==
    /\ []((IsGitHub \/ IsG2Run) =>
            /\ \A i \in 1..Len(reviews) :
                  CollectedDates[i] # None /\ DateLE(WindowStartDate, CollectedDates[i])
            /\ ~late_taken)
    /\ [][((IsGitHub \/ IsG2Run) /\ old_seen) => (reviews' = reviews /\ fetched' = fetched)]_vars

\* C1 witness: G2's scrape_reviews has met an item dated before the start date
\* on a later page, after collecting in-window items, and has returned.
C1_Witness ==
    /\ IsG2Run
    /\ pc = "done"
    /\ old_seen
    /\ fetched >= 2
    /\ Len(reviews) >= 2
    /\ Len(result) = Len(reviews)

\* C2: in every adapter no collected item is dated strictly after the end
\* date, and the window's bounds are inclusive.
C2_NoItemAfterEnd ==
    ((IsRun /\ ValidArgs) \/ IsGitHub) =>
        \A i \in 1..Len(reviews) :
            CollectedDates[i] # None /\ DateLE(CollectedDates[i], WindowEndDate)

\* C3: a fetched page made only of items dated after the end date does not
\* stop the collection: while the page bound is not reached the pagination
\* has not ended right after such a page.
C3_AfterEndDoesNotStop ==
    ((IsGitHub \/ IsG2Run) /\ last_after /\ fetched < max_pages) => pc = "collect"

\* C4 (as stated): the result of run is empty exactly when a date text is
\* not a YYYY-MM-DD date or the source tag is not a registry key, and no
\* exception reaches the caller.
C4_EmptyIffNotRegistryKey ==
    (IsRun /\ pc \notin { "start", "locate", "collect", "collected" }) =>
        /\ pc = "done"
        /\ (result = <<>>) <=> (~ValidArgs \/ source \notin Registry)

\* C4 (amended): the result of run is empty exactly when a date text is not
\* parsed as %Y-%m-%d or the lower-cased source tag is not a registry key;
\* no exception reaches the caller.
C4_EmptyIffUnsupported ==
    (IsRun /\ pc \notin { "start", "locate", "collect", "collected" }) =>
        /\ pc = "done"
        /\ (result = <<>>) <=> (~ValidArgs \/ Lower(source) \notin Registry)

\* C4 witness: a run with a capitalised source tag has returned records.
C4_Witness ==
    /\ IsRun
    /\ pc = "done"
    /\ source = Chars_Capterra
    /\ result # <<>>
    /\ "scraper.scrape_reviews" \in calls

\* C5: fallback policy of run on well-formed input.  When get_direct_url
\* finds nothing, or the adapter's scrape_reviews returns an empty list, run
\* returns exactly 5 synthesized records, each tagged with the upper-cased
\* source tag ("G2" for "g2") and titled with the subject name; when the
\* adapter returns a non-empty list, run returns one dictionary per
\* collected review, in order, and the mock generator is not called.
C5_FallbackPolicy ==
    (IsRun /\ pc = "done" /\ ValidArgs /\ Lower(source) \in Registry /\ ~use_mock) =>
        /\ (product_url = 0 \/ reviews = <<>>) =>
              /\ Len(result) = 5
              /\ "generate_mock_reviews" \in calls
              /\ \A i \in 1..Len(result) :
                    /\ result[i].source = Upper(source)
                    /\ (source = Chars_g2 => result[i].source = Chars_G2)
                    /\ Contains(result[i].title, company_name)
        /\ reviews # <<>> =>
              /\ Len(result) = Len(reviews)
              /\ "generate_mock_reviews" \notin calls
              /\ \A i \in 1..Len(result) :
                    /\ result[i].title = reviews[i].title
                    /\ result[i].date = reviews[i].date
                    /\ result[i].rating = reviews[i].rating
                    /\ result[i].source = reviews[i].source

\* C5 witness: the adapter was called, collected nothing, and run returned
\* synthesized records.
C5_Witness ==
    /\ IsRun
    /\ pc = "done"
    /\ ~use_mock
    /\ product_url # 0
    /\ fetched >= 1
    /\ reviews = <<>>
    /\ Len(result) = 5

\* C6: a run with use_mock set calls none of get_direct_url, the adapter's
\* scrape_reviews, make_request and EnhancedSession.get.
C6_ForcedMockNoNetwork ==
    (IsRun /\ use_mock) => calls \cap NetworkCalls = {}

\* C6 witness: a run with use_mock set has returned the synthesized records.
C6_Witness ==
    /\ IsRun
    /\ use_mock
    /\ pc = "done"
    /\ Len(result) = 5
    /\ "generate_mock_reviews" \in calls

\* C7: generate_mock_reviews(subject, source, count) returns exactly count
\* records for count >= 0, each with the source argument as its source and
\* a rating within [3.0, 5.0].
C7_Synthesize ==
    (entry = "generate_mock_reviews" /\ pc = "done") =>
        /\ Len(result) = count
        /\ \A i \in 1..Len(result) :
              /\ result[i].source = source
              /\ result[i].rating # None
              /\ RatLE(<< 3, 1 >>, result[i].rating)
              /\ RatLE(result[i].rating, << 5, 1 >>)

\* C7 witness: more records than there are templates were asked for and returned.
C7_Witness ==
    /\ entry = "generate_mock_reviews"
    /\ pc = "done"
    /\ count > 5
    /\ Len(result) = count

\* The counts a reactions mapping gives to all names and to the positive ones.
TotalOf(reactions) ==
    Get(reactions, "+1") + Get(reactions, "heart") + Get(reactions, "hooray")
        + Get(reactions, "confused")

PositiveOf(reactions) ==
    Get(reactions, "+1") + Get(reactions, "heart") + Get(reactions, "hooray")

\* C8: the rating get_issues derives from a reactions mapping is
\* positive / total * 5 when the total is greater than 0 and is absent when
\* the total is 0; {"+1": 3, "heart": 1, "hooray": 0, "confused": 2} gives 4/6*5.
C8_RatingFromReactions ==
    (entry = "issue" /\ pc = "done") =>
        /\ IF TotalOf(input) > 0
           THEN /\ Len(result[1].rating) = 2
                /\ result[1].rating[2] > 0
                /\ result[1].rating[1] * TotalOf(input)
                      = 5 * PositiveOf(input) * result[1].rating[2]
           ELSE result[1].rating = None
        /\ input = ExampleReactions => RatEq(result[1].rating, << 4 * 5, 6 >>)

\* C8 witness: the example mapping has been rated.
C8_Witness ==
    /\ entry = "issue"
    /\ pc = "done"
    /\ input = ExampleReactions
    /\ result[1].rating # None

\* The functions whose result is a list of records.
ReturnsRecords ==
    entry \in { "scrape_reviews", "get_issues", "get_pr_comments",
                "generate_mock_reviews", "_parse_g2_review", "issue" }

RatingInRange(r) == r = None \/ (RatLE(<< 0, 1 >>, r) /\ RatLE(r, << 5, 1 >>))

\* C9: every record an adapter or the mock generator produces has a rating
\* that is absent or within [0, 5].
C9_RatingInRange ==
    /\ \A i \in 1..Len(reviews) : RatingInRange(reviews[i].rating)
    /\ (pc = "done" /\ ReturnsRecords) =>
          \A i \in 1..Len(result) : RatingInRange(result[i].rating)

\* C10: no adapter requests more than max_pages pages.
C10_PageBound == fetched <= max_pages

\* C11: a fetch fault on one page ends the pagination without an error.  In
\* every adapter, once the fetch of a page has failed the function returns
\* normally, with exactly the items collected from the pages before it
\* (none when the first page failed).
C11_FaultEndsCollection ==
    kept # None =>
        /\ pc \in { "collected", "done" }
        /\ reviews = kept[1]
        /\ IsGitHub => result = kept[1]

\* The entries of date_formats under which the cleaned text parses.
MatchingFormats(t) == { k \in 1..NumFormats : Strptime(t, k) # <<>> }

FirstOf(S) == CHOOSE k \in S : \A j \in S : k <= j

\* C12: decision order of parse_date.  It never raises; it returns the date
\* given by the first entry of date_formats under which the cleaned text
\* parses; when none does and the cleaned text holds a four-digit token
\* 20xx, it returns January 1st of the first such year; it returns None
\* exactly when the text is empty or neither a format nor a year token
\* matches.
C12_DecisionOrder ==
    (entry = "parse_date" /\ pc # "start") =>
        /\ pc = "done"
        /\ LET t == Clean(input)
               M == MatchingFormats(t)
               Y == YearTokens(t)
           IN /\ (input # <<>> /\ M # {}) => result = Strptime(t, FirstOf(M))
              /\ (input # <<>> /\ M = {} /\ Y # {}) => result = << t[FirstOf(Y)].v, 1, 1 >>
              /\ (result = None) <=> (input = <<>> \/ (M = {} /\ Y = {}))

\* C12 witness: "01/02/2024", which parses under both %m/%d/%Y and
\* %d/%m/%Y, has been resolved to January 2nd.
C12_Witness ==
    /\ entry = "parse_date"
    /\ pc = "done"
    /\ input = TextMdy(<< 2024, 1, 2 >>)
    /\ Cardinality(MatchingFormats(Clean(input))) = 2
    /\ result = << 2024, 1, 2 >>

\* C13: parse_date is idempotent on normalized input.  For every valid
\* calendar date written as YYYY-MM-DD, the parsed date written again as
\* YYYY-MM-DD is the same text: year, month and day are unchanged.
C13_RoundTrip ==
    (entry = "parse_date" /\ pc = "done") =>
        \A d \in ValidDates :
            input = TextYmd(d) => (result = d /\ TextYmd(result) = input)

\* C13 witness: a date whose day and month are both at most 12 has been
\* parsed and written back.
C13_Witness ==
    /\ entry = "parse_date"
    /\ pc = "done"
    /\ input = TextYmd(<< 2024, 5, 6 >>)
    /\ result = << 2024, 5, 6 >>
    /\ TextYmd(result) = input

\* C14: Referer continuity.  On one session the first request carries no
\* Referer header and each later request carries the URL of the request
\* immediately before it, whatever the outcome of that request.
C14_RefererContinuity ==
    \A i \in 1..Len(sent) :
        sent[i].Referer = IF i = 1 THEN None ELSE Some(sent[i - 1].url)

\* C15: slug normalization.  In every adapter get_direct_url computes the
\* same slug (the name lower-cased, every space and every underscore turned
\* into a hyphen, every other character than a-z, 0-9 and hyphen removed),
\* and every candidate URL it tries holds that slug.
C15_SlugNormalization ==
    (entry = "get_direct_url" /\ pc = "done") =>
        /\ result.company_slug = company_slug(company_name)
        /\ \A i \in 1..Len(result.possible_urls) :
              Contains(result.possible_urls[i], company_slug(company_name))

\* C16: in the output of generate_mock_reviews the title and the description
\* of record i are template i modulo 5 with the subject name interpolated,
\* and any two consecutive records differ in reviewer_title, in company_size
\* and in verified.
C16_Alternation ==
    (entry = "generate_mock_reviews" /\ pc = "done") =>
        /\ \A j \in 1..Len(result) :
              /\ result[j].title = sample_titles(company_name)[((j - 1) % 5) + 1]
              /\ result[j].description = sample_descriptions(company_name)[((j - 1) % 5) + 1]
              /\ Contains(result[j].title, company_name)
              /\ Contains(result[j].description, company_name)
        /\ \A j \in 1..(Len(result) - 1) :
              /\ result[j].reviewer_title # result[j + 1].reviewer_title
              /\ result[j].company_size # result[j + 1].company_size
              /\ result[j].verified # result[j + 1].verified

\* C17: every record run returns has a date that parse_date resolves to a
\* day inside the caller's window [start_date, end_date], on every branch.
C17_ResultDatesInWindow ==
    (IsRun /\ pc = "done" /\ ValidArgs) =>
        \A j \in 1..Len(result) :
            InWindow(parse_date(result[j].date), ParseArg(start_date), ParseArg(end_date))

\* The source value of the records the adapter registered under a key builds.
AdapterTag(source_lower) ==
    IF source_lower = Chars_g2 THEN Chars_G2
    ELSE IF source_lower = Chars_capterra THEN Chars_Capterra
    ELSE Chars_TrustRadius

\* C18: for a given source tag every record run returns carries the source
\* value of that tag's adapter, whether it was collected or synthesized, and
\* its pros and cons are filled exactly when the adapter fills them (for
\* TrustRadius).
C18_OneSourceValue ==
    (IsRun /\ pc = "done") =>
        \A j \in 1..Len(result) :
            /\ result[j].source = AdapterTag(Lower(source))
            /\ (result[j].pros # None) <=> (Lower(source) = Chars_trustradius)
            /\ (result[j].cons # None) <=> (Lower(source) = Chars_trustradius)

====
